---- MODULE Spec2Model ----
(***************************************************************************)
(* Model of wpilib/analoggyro.py: the AnalogGyro driver on top of an       *)
(* AnalogInput accumulator channel.                                        *)
(*                                                                         *)
(* Floats are modelled as exact rationals [num, den].  Every quantity the  *)
(* driver computes is reported in the units that make it rational:         *)
(*   - the sensitivity is kept in thousandths of a volt/degree/second,     *)
(*   - angle and rate are in units of 1e-9 * LSBWeight,                    *)
(*   - a deadband is given in half LSB weights.                            *)
(* The channel (AnalogInput) is not part of analoggyro.py; its operations  *)
(* follow the interface description of the specification.                  *)
(***************************************************************************)
EXTENDS Integers, Sequences, FiniteSets, TLC

VARIABLES
    pc,                      \* "new" | "ready" | "failed": outcome of __init__
    channelAllocated,        \* self.channelAllocated
    analog,                  \* self.analog: "AnalogInput" | "None"
    voltsPerDegreePerSecond, \* self.voltsPerDegreePerSecond, in thousandths
    calibrated,              \* self.center / self.offset have been assigned
    center,                  \* self.center
    offset,                  \* self.offset, a rational [num, den]
    ch,                      \* the AnalogInput channel
    globalSampleRate,        \* AnalogInput global sample rate
    releaseCalls,            \* number of free() calls made so far
    lastOp,                  \* the last operation
    lastArgs,                \* the arguments of the last operation
    afterReset,              \* the last operation directly followed a reset()
    result,                  \* what the last operation returned
    snap,                    \* accumulator snapshot the last operation read
    trace                    \* calls the last operation made, in order

vars == <<pc, channelAllocated, analog, voltsPerDegreePerSecond,
          calibrated, center, offset, ch, globalSampleRate, releaseCalls,
          lastOp, lastArgs, afterReset, result, snap, trace>>

driverVars == <<channelAllocated, analog, voltsPerDegreePerSecond,
                calibrated, center, offset>>

ctorVars == <<pc, globalSampleRate>>

----------------------------------------------------------------------------
(* Bounds of the model *)

MaxValue == 2        \* accumulator values range over -MaxValue..MaxValue
MaxCount == 2        \* accumulator counts range over 0..MaxCount
MaxReleases == 2     \* free() is called at most this many times

(* Class constants of AnalogGyro *)

kOversampleBits == 10
kAverageBits == 0
kSamplesPerSecond == 50
kCalibrationSampleTime == 5
kSettleTime == 1
kDefaultVoltsPerDegreePerSecond == 7

----------------------------------------------------------------------------
(* Inputs *)

None == <<>>
Some(x) == <<x>>
Val(a) == a[1]

Values == (0 - MaxValue)..MaxValue
Counts == 0..MaxCount

\* preset center arguments, in halves: int() has something to truncate
CenterArgs == {None, Some(0 - 3)}
\* preset offset arguments, rationals
OffsetArgs == {None, Some([num |-> 1, den |-> 4])}
Sensitivities == {0, 7}
DeadbandArgs == {0, 1}
AverageValues == {0, 1}
ChannelCenters == {0, 1}

----------------------------------------------------------------------------
(* Arithmetic *)

Abs(x) == IF x < 0 THEN 0 - x ELSE x

\* Python int() of the rational num/den, den > 0: truncation toward zero
TruncToInt(num, den) ==
    IF num >= 0 THEN num \div den ELSE 0 - ((0 - num) \div den)

Rat(n, d) == [num |-> n, den |-> d]
Zero == Rat(0, 1)

NoResult == [kind |-> "none", num |-> 0, den |-> 1]
Fault == [kind |-> "fault", num |-> 0, den |-> 1]
Returned(r) == [kind |-> "value", num |-> r.num, den |-> r.den]
IsZeroResult(r) == r.kind = "value" /\ r.num = 0 /\ r.den # 0

----------------------------------------------------------------------------
(* The AnalogInput channel, as the driver uses it *)

Call(name, arg) == <<name, arg>>

ChannelOps == {"setAverageBits", "setOversampleBits", "initAccumulator",
               "resetAccumulator", "setAccumulatorCenter",
               "setAccumulatorDeadband", "getAccumulatorOutput",
               "getAverageValue", "getLSBWeight", "getAverageBits",
               "getOversampleBits", "getChannel", "free"}

IsChannelCall(call) == call[1] \in ChannelOps

ChannelCalls(t) == SelectSeq(t, IsChannelCall)

Calls(t, name) == SelectSeq(t, LAMBDA call : call[1] = name)

\* a channel as AnalogInput(channel) allocates it
NewChannel == [averageBits |-> 0, oversampleBits |-> 0, deadband |-> 0,
               center |-> 0, armed |-> FALSE, armedByDriver |-> FALSE,
               value |-> 0, count |-> 0, freed |-> 0]

\* the effect of one call on the channel
Exec(c, call) ==
    CASE call[1] = "setAverageBits" -> [c EXCEPT !.averageBits = call[2]]
      [] call[1] = "setOversampleBits" -> [c EXCEPT !.oversampleBits = call[2]]
      [] call[1] = "initAccumulator" ->
            [c EXCEPT !.armed = TRUE, !.armedByDriver = TRUE]
      [] call[1] = "resetAccumulator" -> [c EXCEPT !.value = 0, !.count = 0]
      [] call[1] = "setAccumulatorCenter" -> [c EXCEPT !.center = call[2]]
      [] call[1] = "setAccumulatorDeadband" -> [c EXCEPT !.deadband = call[2]]
      [] call[1] = "free" -> [c EXCEPT !.freed = c.freed + 1]
      [] OTHER -> c

RECURSIVE Run(_, _)
Run(c, t) == IF t = <<>> THEN c ELSE Run(Exec(c, Head(t)), Tail(t))

\* what accumulated while the driver waited: the next snapshot
Accumulated(c, value, count) == [c EXCEPT !.value = value, !.count = count]

----------------------------------------------------------------------------
(* AnalogGyro: the computations *)

\* __init__: sampleRate
SampleRate == kSamplesPerSecond * (2 ^ (kAverageBits + kOversampleBits))

\* if not hal.HALIsSimulation(): Timer.delay(t); sim is what the HAL answers
Delay(sim, t) == IF sim THEN <<>> ELSE <<Call("Timer.delay", t)>>

\* setDeadband: deadband = int(volts * 1e9 / LSBWeight * (1 << oversampleBits))
Deadband(halfLsb, oversampleBits) ==
    TruncToInt(halfLsb * (2 ^ oversampleBits), 2)

SetDeadbandTouchesChannel_Always == TRUE

\* setDeadband: if self.analog is None: return
SetDeadbandTouchesChannel == analog # "None"

SetDeadbandCalls(halfLsb, oversampleBits) ==
    << Call("getLSBWeight", 0), Call("getOversampleBits", 0),
       Call("setAccumulatorDeadband", Deadband(halfLsb, oversampleBits)) >>

\* __init__ up to the choice between calibration and presets
InitCalls(sim) ==
    << Call("setAverageBits", kAverageBits),
       Call("setOversampleBits", kOversampleBits),
       Call("AnalogInput.setGlobalSampleRate", SampleRate) >>
    \o Delay(sim, kSettleTime)
    \o SetDeadbandCalls(0, kOversampleBits)
    \o << Call("getChannel", 0), Call("hal.HALReport", 0),
          Call("getChannel", 0), Call("LiveWindow.addSensorChannel", 0) >>

UsesCalibrate_BothAbsent(c, o) == c = None /\ o = None

\* __init__: if center is None or offset is None
UsesCalibrate(c, o) == c = None \/ o = None

\* __init__: self.center = int(center), center given in halves
PresetCenter(c) == TruncToInt(Val(c), 2)

\* __init__: self.offset = float(offset)
PresetOffset(o) == Rat(Val(o).num, Val(o).den)

PresetCalls(c) ==
    << Call("setAccumulatorCenter", PresetCenter(c)),
       Call("resetAccumulator", 0) >>

\* calibrate: the calls before the snapshot is read
CalibrateArmCalls(sim) ==
    << Call("initAccumulator", 0), Call("resetAccumulator", 0) >>
    \o Delay(sim, kCalibrationSampleTime)

\* calibrate: float(value) / float(count) raises ZeroDivisionError
CalibrateFaults(value, count) == count = 0

\* calibrate: self.center = int(float(value) / float(count) + .5)
CalibrateCenter(value, count) == TruncToInt(2 * value + count, 2 * count)

\* calibrate: self.offset = (float(value) / float(count)) - self.center
CalibrateOffset(value, count) ==
    Rat(value - CalibrateCenter(value, count) * count, count)

CalibrateFinishCalls_Unrounded(value, count) ==
    << Call("setAccumulatorCenter", TruncToInt(value, count)),
       Call("resetAccumulator", 0) >>

\* calibrate: the calls after center and offset are assigned
CalibrateFinishCalls(value, count) ==
    << Call("setAccumulatorCenter", CalibrateCenter(value, count)),
       Call("resetAccumulator", 0) >>

Angle_NoCount(value, count, off, averageBits, rate, sensitivity) ==
    Rat((value * off.den - off.num) * (2 ^ averageBits) * 1000,
        off.den * rate * sensitivity)

\* getAngle: value -= count * self.offset, then the scaling
Angle(value, count, off, averageBits, rate, sensitivity) ==
    Rat((value * off.den - count * off.num) * (2 ^ averageBits) * 1000,
        off.den * rate * sensitivity)

\* getRate
Rate(average, cen, off, oversampleBits, sensitivity) ==
    Rat((average * off.den - (cen * off.den + off.num)) * 1000,
        off.den * (2 ^ oversampleBits) * sensitivity)

\* a float division: ZeroDivisionError when the divisor is zero
Divide(r) == IF r.den = 0 THEN Fault ELSE Returned(r)

----------------------------------------------------------------------------
(* AnalogGyro: the operations *)

NoSnap == <<>>

\* __init__ with presets: int(None) / float(None) raise TypeError
PresetFaults(c, o) == c = None \/ o = None

CalibrateResult_GuardedCount(c0, sim, value, count) ==
    LET n == IF count = 0 THEN 1 ELSE count
        read == CalibrateArmCalls(sim) \o <<Call("getAccumulatorOutput", 0)>>
        waited == Accumulated(Run(c0, CalibrateArmCalls(sim)), value, count)
    IN  [fault |-> FALSE,
         ch |-> Run(waited, CalibrateFinishCalls(value, n)),
         trace |-> read \o CalibrateFinishCalls(value, n),
         center |-> CalibrateCenter(value, n),
         offset |-> CalibrateOffset(value, n)]

\* calibrate() on channel c0 when the snapshot read is (value, count)
CalibrateResult(c0, sim, value, count) ==
    LET read == CalibrateArmCalls(sim) \o <<Call("getAccumulatorOutput", 0)>>
        waited == Accumulated(Run(c0, CalibrateArmCalls(sim)), value, count)
    IN  IF CalibrateFaults(value, count)
        THEN [fault |-> TRUE, ch |-> waited, trace |-> read,
              center |-> 0, offset |-> Zero]
        ELSE [fault |-> FALSE,
              ch |-> Run(waited, CalibrateFinishCalls(value, count)),
              trace |-> read \o CalibrateFinishCalls(value, count),
              center |-> CalibrateCenter(value, count),
              offset |-> CalibrateOffset(value, count)]

Init ==
    /\ pc = "new"
    /\ channelAllocated = FALSE
    /\ analog = "None"
    /\ voltsPerDegreePerSecond = kDefaultVoltsPerDegreePerSecond
    /\ calibrated = FALSE
    /\ center = 0
    /\ offset = Zero
    /\ \E pre \in ChannelCenters, armed \in BOOLEAN :
            ch = [NewChannel EXCEPT !.center = pre, !.armed = armed]
    /\ globalSampleRate = 0
    /\ releaseCalls = 0
    /\ lastOp = "none"
    /\ lastArgs = <<>>
    /\ afterReset = FALSE
    /\ result = NoResult
    /\ snap = NoSnap
    /\ trace = <<>>

\* AnalogGyro(channel, center, offset); ch is the channel object the caller
\* holds, or the state AnalogInput(channel) will allocate the channel in
Construct ==
    /\ pc = "new"
    /\ \E borrowed \in BOOLEAN, simulation \in BOOLEAN,
          c \in CenterArgs, o \in OffsetArgs,
          value \in Values, count \in Counts :
        LET c1 == Run(ch, InitCalls(simulation))
            cal == CalibrateResult(c1, simulation, value, count)
        IN  /\ ~borrowed => ch = NewChannel
            /\ count = 0 => value = 0
            /\ channelAllocated' = ~borrowed
            /\ analog' = "AnalogInput"
            /\ voltsPerDegreePerSecond' = kDefaultVoltsPerDegreePerSecond
            /\ globalSampleRate' = SampleRate
            /\ lastArgs' = <<c, o>>
            /\ IF UsesCalibrate(c, o)
               THEN /\ snap' = <<value, count>>
                    /\ trace' = InitCalls(simulation) \o cal.trace
                    /\ ch' = cal.ch
                    /\ IF cal.fault
                       THEN /\ pc' = "failed"
                            /\ result' = Fault
                            /\ UNCHANGED <<calibrated, center, offset>>
                       ELSE /\ pc' = "ready"
                            /\ result' = NoResult
                            /\ calibrated' = TRUE
                            /\ center' = cal.center
                            /\ offset' = cal.offset
               ELSE /\ value = 0 /\ count = 0
                    /\ snap' = NoSnap
                    /\ IF PresetFaults(c, o)
                       THEN /\ pc' = "failed"
                            /\ result' = Fault
                            /\ trace' = InitCalls(simulation)
                            /\ ch' = c1
                            /\ UNCHANGED <<calibrated, center, offset>>
                       ELSE /\ pc' = "ready"
                            /\ result' = NoResult
                            /\ calibrated' = TRUE
                            /\ center' = PresetCenter(c)
                            /\ offset' = PresetOffset(o)
                            /\ trace' = InitCalls(simulation) \o PresetCalls(c)
                            /\ ch' = Run(c1, PresetCalls(c))
    /\ afterReset' = (lastOp = "reset")
    /\ lastOp' = "init"
    /\ UNCHANGED releaseCalls

\* calibrate()
Calibrate ==
    /\ pc = "ready"
    /\ afterReset' = (lastOp = "reset")
    /\ lastArgs' = <<>>
    /\ lastOp' = "calibrate"
    /\ IF analog = "None"
       THEN \* None.initAccumulator() raises AttributeError
            /\ result' = Fault
            /\ snap' = NoSnap
            /\ trace' = <<>>
            /\ UNCHANGED <<ch, calibrated, center, offset>>
       ELSE \E simulation \in BOOLEAN, value \in Values, count \in Counts :
            LET cal == CalibrateResult(ch, simulation, value, count)
            IN  /\ count = 0 => value = 0
                /\ snap' = <<value, count>>
                /\ trace' = cal.trace
                /\ ch' = cal.ch
                /\ IF cal.fault
                   THEN /\ result' = Fault
                        /\ UNCHANGED <<calibrated, center, offset>>
                   ELSE /\ result' = NoResult
                        /\ calibrated' = TRUE
                        /\ center' = cal.center
                        /\ offset' = cal.offset
    /\ UNCHANGED <<ctorVars, channelAllocated, analog,
                   voltsPerDegreePerSecond, releaseCalls>>

\* reset: if self.analog is not None
ResetTouchesChannel == analog # "None"

\* reset()
Reset ==
    /\ pc = "ready"
    /\ afterReset' = (lastOp = "reset")
    /\ lastArgs' = <<>>
    /\ lastOp' = "reset"
    /\ result' = NoResult
    /\ snap' = NoSnap
    /\ trace' = IF ResetTouchesChannel
                THEN <<Call("resetAccumulator", 0)>> ELSE <<>>
    /\ ch' = Run(ch, trace')
    /\ UNCHANGED <<ctorVars, driverVars, releaseCalls>>

\* free: if self.analog is not None and self.channelAllocated
FreeReleasesChannel == analog # "None" /\ channelAllocated

AnalogAfterFree_Kept == analog

\* free: self.analog after the call
AnalogAfterFree == IF FreeReleasesChannel THEN "None" ELSE analog

\* free()
Free ==
    /\ pc = "ready"
    /\ releaseCalls < MaxReleases
    /\ releaseCalls' = releaseCalls + 1
    /\ afterReset' = (lastOp = "reset")
    /\ lastArgs' = <<>>
    /\ lastOp' = "free"
    /\ result' = NoResult
    /\ snap' = NoSnap
    /\ trace' = <<Call("LiveWindow.removeComponent", 0)>>
                \o (IF FreeReleasesChannel THEN <<Call("free", 0)>> ELSE <<>>)
    /\ ch' = Run(ch, trace')
    /\ analog' = AnalogAfterFree
    /\ UNCHANGED <<ctorVars, channelAllocated, voltsPerDegreePerSecond,
                   calibrated, center, offset>>

\* getAngle: if self.analog is None: return 0.0
GetAngleReadsChannel == analog # "None"

GetAngleCalls ==
    << Call("getAccumulatorOutput", 0), Call("getLSBWeight", 0),
       Call("getAverageBits", 0), Call("AnalogInput.getGlobalSampleRate", 0) >>

\* getAngle()
GetAngle ==
    /\ pc = "ready"
    /\ afterReset' = (lastOp = "reset")
    /\ lastArgs' = <<>>
    /\ lastOp' = "getAngle"
    /\ IF GetAngleReadsChannel
       THEN /\ snap' = <<ch.value, ch.count>>
            /\ trace' = GetAngleCalls
            /\ result' = Divide(Angle(ch.value, ch.count, offset,
                                      ch.averageBits, globalSampleRate,
                                      voltsPerDegreePerSecond))
       ELSE /\ snap' = NoSnap
            /\ trace' = <<>>
            /\ result' = Returned(Zero)
    /\ UNCHANGED <<ctorVars, driverVars, ch, releaseCalls>>

\* getRate: if self.analog is None: return 0.0
GetRateReadsChannel == analog # "None"

GetRateCalls ==
    << Call("getAverageValue", 0), Call("getLSBWeight", 0),
       Call("getOversampleBits", 0) >>

\* getRate()
GetRate ==
    /\ pc = "ready"
    /\ afterReset' = (lastOp = "reset")
    /\ lastArgs' = <<>>
    /\ lastOp' = "getRate"
    /\ snap' = NoSnap
    /\ IF GetRateReadsChannel
       THEN \E average \in AverageValues :
            /\ trace' = GetRateCalls
            /\ result' = Divide(Rate(average, center, offset,
                                     ch.oversampleBits,
                                     voltsPerDegreePerSecond))
       ELSE /\ trace' = <<>>
            /\ result' = Returned(Zero)
    /\ UNCHANGED <<ctorVars, driverVars, ch, releaseCalls>>

\* setSensitivity(voltsPerDegreePerSecond)
SetSensitivity ==
    /\ pc = "ready"
    /\ \E s \in Sensitivities :
        /\ voltsPerDegreePerSecond' = s
        /\ lastArgs' = <<s>>
    /\ afterReset' = (lastOp = "reset")
    /\ lastOp' = "setSensitivity"
    /\ result' = NoResult
    /\ snap' = NoSnap
    /\ trace' = <<>>
    /\ UNCHANGED <<ctorVars, channelAllocated, analog, calibrated, center,
                   offset, ch, releaseCalls>>

\* setDeadband(volts)
SetDeadband ==
    /\ pc = "ready"
    /\ afterReset' = (lastOp = "reset")
    /\ lastOp' = "setDeadband"
    /\ result' = NoResult
    /\ snap' = NoSnap
    /\ \E volts \in DeadbandArgs :
        /\ lastArgs' = <<volts>>
        /\ trace' = IF SetDeadbandTouchesChannel
                    THEN SetDeadbandCalls(volts, ch.oversampleBits) ELSE <<>>
    /\ ch' = Run(ch, trace')
    /\ UNCHANGED <<ctorVars, driverVars, releaseCalls>>

\* the hardware accumulates one sample (its deviation from the center)
Accumulate ==
    /\ pc = "ready"
    /\ ch.freed = 0
    /\ ch.armed
    /\ ch.count < MaxCount
    /\ \E s \in {0 - 1, 0, 1} :
        /\ Abs(s) >= ch.deadband
        /\ Abs(ch.value + s) <= MaxValue
        /\ ch' = Accumulated(ch, ch.value + s, ch.count + 1)
    /\ afterReset' = (lastOp = "reset")
    /\ lastArgs' = <<>>
    /\ lastOp' = "accumulate"
    /\ result' = NoResult
    /\ snap' = NoSnap
    /\ trace' = <<>>
    /\ UNCHANGED <<ctorVars, driverVars, releaseCalls>>

Next ==
    \/ Construct
    \/ Calibrate
    \/ Reset
    \/ Free
    \/ GetAngle
    \/ GetRate
    \/ SetSensitivity
    \/ SetDeadband
    \/ Accumulate

Spec == Init /\ [][Next]_vars

----------------------------------------------------------------------------
(* Properties *)

Released == releaseCalls > 0
ReadAfterRelease == Released /\ lastOp \in {"getAngle", "getRate"}
CalibrationRead == lastOp \in {"init", "calibrate"} /\ snap # NoSnap
RanCalibrate(t) == Calls(t, "initAccumulator") # <<>>
WaitedFor(t, time) ==
    \E i \in 1..Len(t) : t[i] = Call("Timer.delay", time)
Completed == result.kind = "none"

\* C1: after free() has been called, getAngle() and getRate() return 0.0
\* whatever the driver was constructed from, and free() never faults.
C1_ReleasedReadsZero ==
    /\ ReadAfterRelease => IsZeroResult(result)
    /\ lastOp = "free" => result.kind # "fault"

\* C2: the channel's free() is never called for a borrowed channel and is
\* called exactly once, at the first free() of the driver, for an owned one.
C2_ChannelFreedOnce ==
    pc = "ready" =>
        ch.freed = (IF channelAllocated /\ Released THEN 1 ELSE 0)

C2_Witness ==
    channelAllocated /\ releaseCalls >= 2 /\ ch.freed = 1 /\ lastOp = "free"

\* C3: for a snapshot (value, count) with count > 0, calibrate() leaves
\* center + offset = value / count and |offset| < 1.
C3_CalibrateSplitsMean ==
    (CalibrationRead /\ snap[2] > 0) =>
        /\ (center * offset.den + offset.num) * snap[2] = snap[1] * offset.den
        /\ Abs(offset.num) < offset.den

\* C4: for a snapshot (value, count) with count > 0, the center calibrate()
\* computes is floor(value / count + 1/2).
C4_CenterIsFloorOfHalfUp ==
    (CalibrationRead /\ snap[2] > 0) =>
        center = (2 * snap[1] + snap[2]) \div (2 * snap[2])

\* C5 as stated: __init__ runs calibrate() if and only if both presets are
\* absent, and adopts the presets in every other case.
C5_CalibratesOnlyWithoutPresets ==
    lastOp = "init" =>
        (RanCalibrate(trace) <=> (lastArgs[1] = None /\ lastArgs[2] = None))

\* C5 as amended: __init__ runs calibrate() if and only if at least one
\* preset is absent; when both are given it adopts int(center) and
\* float(offset), pushes the center to the channel, resets the accumulator,
\* and neither reads the accumulator nor waits the calibration window.
C5_CalibratesUnlessBothPresets ==
    lastOp = "init" =>
        /\ RanCalibrate(trace) <=> (lastArgs[1] = None \/ lastArgs[2] = None)
        /\ (lastArgs[1] # None /\ lastArgs[2] # None) =>
            /\ pc = "ready"
            /\ center = TruncToInt(lastArgs[1][1], 2)
            /\ offset = lastArgs[2][1]
            /\ ch.center = center
            /\ ch.value = 0 /\ ch.count = 0
            /\ Calls(trace, "getAccumulatorOutput") = <<>>
            /\ ~WaitedFor(trace, kCalibrationSampleTime)

C5_Witness ==
    /\ lastOp = "init" /\ pc = "ready"
    /\ lastArgs[1] # None /\ lastArgs[2] = None
    /\ RanCalibrate(trace)
    /\ WaitedFor(trace, kCalibrationSampleTime)

\* C6 as stated: getAngle() called directly after reset() returns 0.0 and
\* does not fault, whatever center, offset and sensitivity are.
C6_AngleZeroAfterReset ==
    (pc = "ready" /\ lastOp = "getAngle" /\ afterReset) =>
        IsZeroResult(result)

\* C6 as amended: getAngle() called directly after reset() reads the
\* snapshot (0, 0) and returns 0.0 provided the sensitivity is not zero.
C6_AngleZeroAfterResetNonzeroSensitivity ==
    (pc = "ready" /\ lastOp = "getAngle" /\ afterReset) =>
        /\ analog # "None" => snap = <<0, 0>>
        /\ voltsPerDegreePerSecond # 0 => IsZeroResult(result)

C6_Witness ==
    /\ pc = "ready" /\ lastOp = "getAngle" /\ afterReset
    /\ analog # "None" /\ offset.num # 0 /\ voltsPerDegreePerSecond # 0
    /\ snap = <<0, 0>> /\ IsZeroResult(result)

\* C7: a calibrate() whose snapshot has count = 0 ends in a fault after a
\* single read, assigns neither center nor offset, pushes no center to the
\* channel and does not perform the final reset; inside __init__ the
\* construction fails.
C7_ZeroCountFaults ==
    [][ (lastOp' \in {"init", "calibrate"} /\ snap' # NoSnap /\ snap'[2] = 0)
        => /\ result' = Fault
           /\ center' = center /\ offset' = offset
           /\ calibrated' = calibrated
           /\ ch'.center = ch.center
           /\ Calls(trace', "setAccumulatorCenter") = <<>>
           /\ Len(Calls(trace', "resetAccumulator")) = 1
           /\ Len(Calls(trace', "getAccumulatorOutput")) = 1
           /\ trace'[Len(trace')] = Call("getAccumulatorOutput", 0)
           /\ lastOp' = "init" => (pc' = "failed" /\ ~calibrated') ]_vars

C7_Witness ==
    /\ lastOp = "calibrate" /\ snap = <<0, 0>> /\ result = Fault
    /\ pc = "ready" /\ center # 0

\* C8: once an owned channel has been released, no operation of the driver
\* calls the channel or changes it.
C8_NoCallOnReleasedChannel ==
    [][ (channelAllocated /\ Released)
        => (ChannelCalls(trace') = <<>> /\ ch' = ch) ]_vars

C8_Witness ==
    /\ channelAllocated /\ Released /\ lastOp = "setDeadband"
    /\ lastArgs = <<1>> /\ trace = <<>> /\ ch.deadband = 0

\* C9: whenever getAngle() reads the accumulator, the driver has armed it
\* (initAccumulator) before.
C9_ArmedBeforeRead ==
    (lastOp = "getAngle" /\ snap # NoSnap) => ch.armedByDriver

\* C10: after a successful construction and while the channel reference is
\* held, the channel's accumulator center equals the driver's center; right
\* after __init__ or a completed calibrate() the accumulator is zeroed.
C10_CenterInSync ==
    /\ (pc = "ready" /\ analog # "None") => ch.center = center
    /\ (pc = "ready" /\ lastOp \in {"init", "calibrate"} /\ Completed) =>
            (ch.value = 0 /\ ch.count = 0)

C10_Witness ==
    /\ pc = "ready" /\ lastOp = "calibrate" /\ Completed
    /\ snap # NoSnap /\ snap[1] < 0
    /\ center # 0 /\ ch.center = center /\ ch.count = 0

====
